---- MODULE Spec2Model ----
(***************************************************************************)
(* The MCP streaming endpoint (sse_handler and its event generator), the   *)
(* in-memory session table and the OAuth 2.1 authorization-code flow of    *)
(* app/api/routes.py, together with the tool registry it dispatches to.    *)
(***************************************************************************)
EXTENDS Integers, Sequences, FiniteSets, TLC

(* ------------------------------------------------------------------ *)
(* Bounds of the model                                                *)
(* ------------------------------------------------------------------ *)
\* longest request body, in lines
MaxBodyLen == 2
\* number of requests to the streaming endpoint in one behaviour
MaxConnections == 2
\* number of times the clock advances in one behaviour
MaxTicks == 1
\* seconds a call of the slow tool blocks
SlowToolSeconds == 20
\* number of authorization codes /authorize issues in one behaviour
MaxCodes == 2
\* number of tools/call requests the stdio bridge forwards in one behaviour
MaxBridgeCalls == 2

(* ------------------------------------------------------------------ *)
(* Program constants                                                  *)
(* ------------------------------------------------------------------ *)
CLIENT_ID == "claude-desktop"
CLIENT_SECRET == "medtainer-mcp-secret-2024"
REDIRECT_URI == "https://claude.ai/api/mcp/auth_callback"
keepalive_interval == 15
\* cleanup_old_sessions: timedelta(hours=1), in seconds
SessionIdleSeconds == 3600
METHOD_NOT_FOUND == -32601
INTERNAL_ERROR == -32603

(* ------------------------------------------------------------------ *)
(* Values                                                             *)
(* ------------------------------------------------------------------ *)
\* request_data.get("id") of a request without an id: Python None, JSON null
NoId == "null"
\* params.get("name") of a request without a tool name
NoName == "None"
\* .get('clientInfo', {}) of params without clientInfo: the empty mapping
NoInfo == "{}"
\* request.headers.get("Mcp-Session-Id") when the header is absent
NoSid == 0
\* an event that carries no "id:" line (the keepalive comment)
NoEventId == -1
\* settings.mcp_api_key when it is not configured
NoKey == "None"
\* a header that is absent reads as the empty string (headers.get(name, ""))
NoHeader == ""

\* the value of a missing token, code or form field
NoToken == 0
\* the access tokens a client may present; tokens are numbered as issued
Tokens == {1, 2}

(* ------------------------------------------------------------------ *)
(* The tool registry (app/mcp/tool_registry.py and the bundled tools) *)
(* ------------------------------------------------------------------ *)
\* registry._tools, by name: empty when the module is imported
VARIABLE registry

\* a sample of the tools register_all_bundles(registry) registers: tools of
\* the bundles listed before freshbooks, the first bundle whose package has
\* no build_tools (it is defined in freshbooks/tools.py only)
BundledTools ==
    { "gohighlevel.read_contacts", "gohighlevel.sync_all_contacts",
      "gohighlevel.send_sms", "quickbooks.ledger_summary",
      "google_workspace.list_assets", "amazon.order_digest",
      "cloudflare.list_dns", "godaddy.list_domains" }

\* ToolMetadata.ecosystem of a registered tool
Ecosystem(name) ==
    IF name = "quickbooks.ledger_summary" THEN "quickbooks"
    ELSE IF name = "google_workspace.list_assets" THEN "google_workspace"
    ELSE IF name = "amazon.order_digest" THEN "amazon"
    ELSE IF name = "cloudflare.list_dns" THEN "cloudflare"
    ELSE IF name = "godaddy.list_domains" THEN "godaddy"
    ELSE "gohighlevel"

\* tool.run(**{}) of a registered tool called without arguments: send_sms has
\* two required parameters, so the call raises TypeError; the others return a
\* ToolResponse
ToolRun(name) ==
    IF name = "gohighlevel.send_sms" THEN "raise" ELSE "return"

\* seconds the synchronous tool.run call takes: sync_all_contacts pages through
\* the whole CRM, the others answer at once
ToolSeconds(name) ==
    IF name = "gohighlevel.sync_all_contacts" THEN SlowToolSeconds ELSE 0

\* the mutant of Execute that refuses the tools tools/list does not show
ExecuteListedOnly(name) ==
    IF name \notin registry \/ Ecosystem(name) \notin { "gohighlevel", "godaddy", "digitalocean" }
    THEN "raise" ELSE ToolRun(name)

\* ToolRegistry.execute: ToolNotFoundError for an unknown name, else tool.run
Execute(name) ==
    IF name \notin registry THEN "raise" ELSE ToolRun(name)

(* ------------------------------------------------------------------ *)
(* Request bodies                                                     *)
(* ------------------------------------------------------------------ *)
\* one line of a body: a JSON object (a JSON-RPC request), a JSON value that
\* is no object, or text that is no JSON
Line(kind, id, method, name, info) ==
    [kind |-> kind, id |-> id, method |-> method, name |-> name, clientInfo |-> info]

Req(id, method, name, info) == Line("request", id, method, name, info)

MalformedLine == Line("malformed", NoId, "None", NoName, NoInfo)
NonObjectLine == Line("nonobject", NoId, "None", NoName, NoInfo)

InitializeReq == Req("1", "initialize", NoName, "cA")
NotificationReq == Req(NoId, "notifications/initialized", NoName, NoInfo)
ListReq == Req("2", "tools/list", NoName, NoInfo)
CallFastReq == Req("3", "tools/call", "gohighlevel.read_contacts", NoInfo)
CallSlowReq == Req("4", "tools/call", "gohighlevel.sync_all_contacts", NoInfo)
CallUnknownReq == Req("5", "tools/call", "nosuch.tool", NoInfo)
CallRaisesReq == Req("6", "tools/call", "gohighlevel.send_sms", NoInfo)

\* a call of a registered tool whose ecosystem is not enabled for listing
CallHiddenReq == Req("8", "tools/call", "quickbooks.ledger_summary", NoInfo)

\* a second initialize request, of another client
InitializeReqB == Req("7", "initialize", NoName, "cB")

\* the lines the session specification draws bodies from
SessionLines == { InitializeReq, InitializeReqB, ListReq }

\* the lines the streaming specification draws bodies from
StreamLines ==
    { InitializeReq, NotificationReq, ListReq, CallFastReq, CallSlowReq,
      CallUnknownReq, CallRaisesReq, CallHiddenReq, MalformedLine, NonObjectLine }

\* the lines the authentication specification draws bodies from
AuthLines == { InitializeReq }

BodiesOver(L) == UNION { [1..k -> L] : k \in 0..MaxBodyLen }

(* ------------------------------------------------------------------ *)
(* Request headers                                                    *)
(* ------------------------------------------------------------------ *)
\* the Authorization header: absent, "Bearer <t>", or another scheme
Bearer(t) == <<"Bearer ", t>>
NoAuthorization == <<NoHeader, NoToken>>
AuthHeaders == { NoAuthorization } \cup { Bearer(t) : t \in Tokens } \cup { <<"Basic ", 1>> }
ApiKeyHeaders == { NoHeader, "k1", "k2" }
\* no session id, or the id of the first session the server creates
SessionHeaders == { NoSid, 1 }

Headers(a, k, s) == [authorization |-> a, x_api_key |-> k, mcp_session_id |-> s]

AllHeaders ==
    { Headers(a, k, s) : a \in AuthHeaders, k \in ApiKeyHeaders, s \in SessionHeaders }

\* the header sets of the session specification: a request without
\* credentials, and requests with the API key that present no session id,
\* the first and the second id create_session hands out
SessionRequestHeaders ==
    { Headers(NoAuthorization, NoHeader, 1),
      Headers(NoAuthorization, "k1", NoSid),
      Headers(NoAuthorization, "k1", 1),
      Headers(NoAuthorization, "k1", 2) }

\* the header sets of the streaming specification: no credentials, the API
\* key, and a bearer token together with a session id
StreamHeaders ==
    { Headers(NoAuthorization, NoHeader, NoSid),
      Headers(NoAuthorization, "k1", NoSid),
      Headers(Bearer(1), NoHeader, 1) }

NoRequest == [headers |-> Headers(NoAuthorization, NoHeader, NoSid), body |-> <<>>]

(* ------------------------------------------------------------------ *)
(* State                                                              *)
(* ------------------------------------------------------------------ *)
VARIABLES
    now,                \* the clock (time.time(), datetime.utcnow()), in seconds
    ticks,              \* how often the clock has advanced
    mcp_api_key,        \* settings.mcp_api_key
    access_tokens,      \* the access_token:* keys of the credential store
    refresh_tokens,     \* the refresh_token:* keys of the credential store
    auth_codes,         \* the auth_code:* keys of the credential store: code -> code_data
    next_code,          \* the next fresh authorization code (os.urandom)
    next_token,         \* the next fresh token (os.urandom)
    token_request,      \* the form of the last POST /token
    token_response,     \* the response to the last POST /token
    redeemed,           \* history: code -> number of POST /token answered with tokens
    mcp_sessions,       \* the session table: session id -> session
    next_session_id,    \* the next fresh uuid4
    connNo,             \* requests to the streaming endpoint so far
    request,            \* the current request: headers and body
    status_code,        \* HTTP status of the response, 0 while there is none
    response_headers,   \* the Mcp-Session-Id response header, NoSid if absent
    www_authenticate,   \* the WWW-Authenticate response header, None if absent
    head_request,       \* the headers of the last HEAD /mcp
    head_response,      \* the response to the last HEAD /mcp
    auth_method,        \* "oauth", "api_key" or "None"
    initial_requests,   \* the requests parsed from the body
    gen,                \* position of event_generator
    event_id,           \* event_generator's event_id
    last_keepalive,     \* event_generator's last_keepalive
    process_task,       \* state of the process_requests task
    response_queue,     \* the connection's asyncio.Queue
    events,             \* the events sent on the stream so far
    reader,             \* position of read_requests
    unread,             \* the lines of the request stream not yet received
    call_tasks,         \* the handle_mcp_request tasks created and not yet run
    bridge_tools,       \* stdio bridge: the MCP names of its last tools/list result
    bridge_calls        \* stdio bridge: the tools/call requests it has forwarded

vars ==
    << now, ticks, registry, mcp_api_key, access_tokens, refresh_tokens, auth_codes, next_code,
       next_token, token_request, token_response, redeemed, mcp_sessions,
       next_session_id, connNo, request, status_code, response_headers,
       www_authenticate, head_request, head_response, auth_method,
       initial_requests, gen, event_id, last_keepalive, process_task,
       response_queue, events, reader, unread, call_tasks, bridge_tools,
       bridge_calls >>

oauthVars ==
    << refresh_tokens, auth_codes, next_code, next_token, token_request, token_response,
       redeemed >>
probeVars == << head_request, head_response >>
readerVars == << reader, unread, call_tasks >>
bridgeVars == << bridge_tools, bridge_calls >>
globalVars ==
    << registry, mcp_api_key, access_tokens, mcp_sessions, next_session_id, oauthVars,
       probeVars, readerVars, bridgeVars >>
streamVars == << gen, event_id, last_keepalive, process_task, response_queue, events >>
requestVars ==
    << connNo, request, status_code, response_headers, www_authenticate, auth_method,
       initial_requests >>

(* ------------------------------------------------------------------ *)
(* The session table                                                  *)
(* ------------------------------------------------------------------ *)
\* create_session: the table with a session added under the fresh id
create_session(table, session_id, client_info, t) ==
    [s \in DOMAIN table \cup {session_id} |->
        IF s = session_id
        THEN [client_info |-> client_info, created_at |-> t, last_activity |-> t]
        ELSE table[s]]

\* the mutant of get_session that stamps every session of the table
get_session_stamps_all(table, session_id, t) ==
    IF session_id \in DOMAIN table
    THEN [s \in DOMAIN table |-> [table[s] EXCEPT !.last_activity = t]]
    ELSE table

\* get_session: the table after a lookup, which stamps a session it finds
get_session(table, session_id, t) ==
    IF session_id \in DOMAIN table
    THEN [table EXCEPT ![session_id].last_activity = t]
    ELSE table

(* ------------------------------------------------------------------ *)
(* sse_handler: authentication                                        *)
(* ------------------------------------------------------------------ *)
\* the mutants of Authenticate
AuthenticateNoStoreLookup(h, store, key) ==
    IF h.authorization[1] = "Bearer " THEN "oauth"
    ELSE IF h.x_api_key # NoHeader /\ key # NoKey /\ h.x_api_key = key THEN "api_key"
    ELSE "None"

AuthenticateNoFallback(h, store, key) ==
    IF h.authorization[1] = "Bearer "
    THEN (IF h.authorization[2] \in store THEN "oauth" ELSE "None")
    ELSE IF h.x_api_key # NoHeader /\ key # NoKey /\ h.x_api_key = key THEN "api_key"
    ELSE "None"

\* the authentication decision of sse_handler: the bearer token first, the
\* API key as the fallback
Authenticate(h, store, key) ==
    LET oauth == h.authorization[1] = "Bearer " /\ h.authorization[2] \in store
    IN  IF oauth THEN "oauth"
        ELSE IF h.x_api_key # NoHeader /\ key # NoKey /\ h.x_api_key = key THEN "api_key"
        ELSE "None"

(* ------------------------------------------------------------------ *)
(* sse_handler: the body                                              *)
(* ------------------------------------------------------------------ *)
\* the loop over the lines of the body. json.loads raises on a line that is
\* no JSON, and req.get raises on a JSON value that is no object after the
\* value was appended; the except clause around the loop ends the parsing
\* with what was collected so far.
RECURSIVE ParseLines(_, _, _)
ParseLines(lines, acc, is_initialize) ==
    IF lines = <<>>
    THEN [initial_requests |-> acc, is_initialize |-> is_initialize]
    ELSE LET line == Head(lines)
         IN  IF line.kind = "malformed"
             THEN [initial_requests |-> acc, is_initialize |-> is_initialize]
             ELSE IF line.kind = "nonobject"
             THEN [initial_requests |-> Append(acc, line), is_initialize |-> is_initialize]
             ELSE ParseLines(Tail(lines), Append(acc, line),
                             is_initialize \/ line.method = "initialize")

\* the mutant of ParseBody that takes every body for an initialize
ParseBodyAlwaysInitialize(body) ==
    [ParseLines(body, <<>>, FALSE) EXCEPT !.is_initialize = TRUE]

ParseBody(body) == ParseLines(body, <<>>, FALSE)

(* ------------------------------------------------------------------ *)
(* handle_mcp_request                                                 *)
(* ------------------------------------------------------------------ *)
enabled_ecosystems == { "gohighlevel", "godaddy", "digitalocean" }

\* no message: the response is no error
NoMessage == << >>

Response(id, kind, code, tools) ==
    [id |-> id, kind |-> kind, code |-> code, tools |-> tools, message |-> NoMessage]

\* the error response: {"id": ..., "error": {"code": ..., "message": ...}}
ErrorResponse(id, code, message) ==
    [Response(id, "error", code, {}) EXCEPT !.message = message]

\* the exception registry.execute(name, {}) raises: ToolNotFoundError, a
\* KeyError, for a name that is not registered; TypeError from tool.run()
\* called without its required arguments. The message is a sequence of
\* the pieces of its text.
Raised(name) ==
    IF name \notin registry
    THEN [type |-> "ToolNotFoundError",
          message |-> << "No tool registered with name '", name, "'" >>]
    ELSE [type |-> "TypeError",
          message |-> << "SendSMSTool.run() missing 2 required positional arguments: 'contact_id' and 'message'" >>]

\* the mutant of Str that hides the text of the exception
StrGeneric(e) == << "Internal error" >>

\* str(e): the message of the exception; for a KeyError (ToolNotFoundError
\* is one) the repr of the message, that is the message in quotes
Str(e) ==
    IF e.type \in { "KeyError", "ToolNotFoundError" }
    THEN << "\"" >> \o e.message \o << "\"" >>
    ELSE e.message

\* f"Method not found: {method}"
MethodNotFound(method) == << "Method not found: ", method >>

\* the None that ends the response loop
Sentinel == Response(NoId, "sentinel", 0, {})

\* the mutant of handle_mcp_request without the initialize branch
handle_mcp_request_no_initialize(req) ==
    IF req.method = "tools/list"
    THEN << Response(req.id, "result", 0,
                     { t \in registry : Ecosystem(t) \in enabled_ecosystems }) >>
    ELSE IF req.method = "tools/call"
    THEN (IF Execute(req.name) = "raise"
          THEN << ErrorResponse(req.id, INTERNAL_ERROR, Str(Raised(req.name))) >>
          ELSE << Response(req.id, "result", 0, {}) >>)
    ELSE << ErrorResponse(req.id, METHOD_NOT_FOUND, MethodNotFound(req.method)) >>

\* the mutant of handle_mcp_request that answers the initialize request of
\* the first client only
handle_mcp_request_one_initialize(req) ==
    IF req.method = "initialize"
    THEN (IF req.clientInfo = "cA" THEN << Response(req.id, "result", 0, {}) >> ELSE <<>>)
    ELSE IF req.method = "tools/list"
    THEN << Response(req.id, "result", 0,
                     { t \in registry : Ecosystem(t) \in enabled_ecosystems }) >>
    ELSE IF req.method = "tools/call"
    THEN (IF Execute(req.name) = "raise"
          THEN << ErrorResponse(req.id, INTERNAL_ERROR, Str(Raised(req.name))) >>
          ELSE << Response(req.id, "result", 0, {}) >>)
    ELSE << ErrorResponse(req.id, METHOD_NOT_FOUND, MethodNotFound(req.method)) >>

\* what handle_mcp_request puts on the queue for one request object:
\* response_data is set on every path, so one response is always put
handle_mcp_request(req) ==
    IF req.method = "initialize" THEN << Response(req.id, "result", 0, {}) >>
    ELSE IF req.method = "tools/list"
    THEN << Response(req.id, "result", 0,
                     { t \in registry : Ecosystem(t) \in enabled_ecosystems }) >>
    ELSE IF req.method = "tools/call"
    THEN (IF Execute(req.name) = "raise"
          THEN << ErrorResponse(req.id, INTERNAL_ERROR, Str(Raised(req.name))) >>
          ELSE << Response(req.id, "result", 0, {}) >>)
    ELSE << ErrorResponse(req.id, METHOD_NOT_FOUND, MethodNotFound(req.method)) >>

\* seconds handle_mcp_request blocks the event loop in registry.execute
handle_seconds(req) ==
    IF req.method = "tools/call" /\ req.name \in registry
    THEN ToolSeconds(req.name) ELSE 0

(* ------------------------------------------------------------------ *)
(* event_generator.process_requests                                   *)
(* ------------------------------------------------------------------ *)
\* the for loop of process_requests: the requests are handled one after the
\* other, each awaited before the next. A parsed value that is no object
\* makes handle_mcp_request raise AttributeError before its try block, and
\* the except clause of process_requests ends the loop.
\* the mutant of process_requests that signals the end of the work with the
\* None that closes the stream
process_requests_then_sentinel(reqs, queue) == Append(queue, Sentinel)

RECURSIVE process_requests(_, _)
process_requests(reqs, queue) ==
    IF reqs = <<>> THEN queue
    ELSE IF Head(reqs).kind = "nonobject" THEN queue
    ELSE process_requests(Tail(reqs), queue \o handle_mcp_request(Head(reqs)))

RECURSIVE process_seconds(_)
process_seconds(reqs) ==
    IF reqs = <<>> THEN 0
    ELSE IF Head(reqs).kind = "nonobject" THEN 0
    ELSE handle_seconds(Head(reqs)) + process_seconds(Tail(reqs))

(* ------------------------------------------------------------------ *)
(* Events of the stream                                               *)
(* ------------------------------------------------------------------ *)
Event(kind, id, data) == [kind |-> kind, id |-> id, data |-> data]

NoData == Response(NoId, "none", 0, {})

PrimingEvent(id) == Event("priming", id, NoData)
EndpointEvent(id) == Event("endpoint", id, NoData)
ResponseEvent(id, data) == Event("response", id, data)

\* the mutant of KeepaliveEvent that numbers the keepalive like a response
KeepaliveEventNumbered(id) == Event("keepalive", id, NoData)

\* ": keepalive\n\n", a comment without id and data
KeepaliveEvent(id) == Event("keepalive", NoEventId, NoData)

(* ------------------------------------------------------------------ *)
(* POST /token: requests and responses                                *)
(* ------------------------------------------------------------------ *)
\* a form field that was not sent (Form(None)), a missing query parameter
None == "None"

TokenRequest(grant_type, code, redirect_uri, client_id, client_secret, code_verifier) ==
    [grant_type |-> grant_type, code |-> code, redirect_uri |-> redirect_uri,
     client_id |-> client_id, client_secret |-> client_secret,
     code_verifier |-> code_verifier]

TokenResponse(status, detail, access_token, refresh_token) ==
    [status |-> status, detail |-> detail, access_token |-> access_token,
     refresh_token |-> refresh_token]

NoTokenRequest == TokenRequest(None, NoToken, None, None, None, None)
NoTokenResponse == TokenResponse(0, None, NoToken, NoToken)

\* what clients send in the forms of /authorize and /token
GrantTypes == { "authorization_code", "refresh_token" }
ClientIds == { CLIENT_ID, "other-client" }
RedirectUris == { REDIRECT_URI, "https://example.org/callback" }
ResponseTypes == { "code", "token" }
Scopes == { None, "read write" }
ClientSecrets == { None, CLIENT_SECRET, "wrong-secret" }
Verifiers == { None, "v1", "v2" }
\* the challenge of verifier v1, and v1 itself sent as the challenge
Challenges == { None, "c1", "v1" }

\* base64.urlsafe_b64encode(hashlib.sha256(code_verifier.encode()).digest())
\* .decode().rstrip('='): a different value for every verifier, and never
\* the verifier itself
S256(code_verifier) ==
    CASE code_verifier = "v1" -> "c1"
      [] code_verifier = "v2" -> "c2"
      [] OTHER -> "c0"

\* the WWW-Authenticate challenge that names the protected-resource
\* metadata document
Challenge ==
    "Bearer realm=\"MCP Server\", resource_metadata_uri=\"https://medtainer.aijesusbro.com/.well-known/oauth-protected-resource\""

\* the response to a HEAD /mcp: Response(status_code=..., headers=...)
HeadResponse(status, header) == [status |-> status, www_authenticate |-> header]
NoHeadResponse == HeadResponse(0, None)

\* the headers HEAD /mcp is probed with
ProbeHeaders == { Headers(a, k, NoSid) : a \in AuthHeaders, k \in ApiKeyHeaders }

(* ------------------------------------------------------------------ *)
(* Init                                                               *)
(* ------------------------------------------------------------------ *)
NoConnection ==
    /\ connNo = 0
    /\ request = NoRequest
    /\ status_code = 0
    /\ response_headers = NoSid
    /\ www_authenticate = None
    /\ head_request = NoRequest.headers
    /\ head_response = NoHeadResponse
    /\ auth_method = "None"
    /\ initial_requests = <<>>
    /\ gen = "none"
    /\ event_id = 0
    /\ last_keepalive = 0
    /\ process_task = "none"
    /\ response_queue = <<>>
    /\ events = <<>>
    /\ reader = "none"
    /\ unread = <<>>
    /\ call_tasks = <<>>
    /\ bridge_tools = {}
    /\ bridge_calls = <<>>

\* no authorization code is stored and POST /token was never called
NoOAuth ==
    /\ refresh_tokens = {}
    /\ auth_codes = << >>
    /\ next_code = 1
    /\ token_request = NoTokenRequest
    /\ token_response = NoTokenResponse
    /\ redeemed = << >>

\* the server after start-up: an empty session table; the credential store
\* holds the access token 1 that /token issued
Init ==
    /\ now = 0
    /\ ticks = 0
    /\ registry \in { {}, BundledTools }
    /\ mcp_api_key = "k1"
    /\ access_tokens = {1}
    /\ next_token = 2
    /\ NoOAuth
    /\ mcp_sessions = << >>
    /\ next_session_id = 1
    /\ NoConnection

\* the server with an empty credential store
InitOAuth ==
    /\ now = 0
    /\ ticks = 0
    /\ registry = {}
    /\ mcp_api_key = "k1"
    /\ access_tokens = {}
    /\ next_token = 1
    /\ NoOAuth
    /\ mcp_sessions = << >>
    /\ next_session_id = 1
    /\ NoConnection

\* the server with the API key configured and no tool registered
InitSession ==
    /\ now = 0
    /\ ticks = 0
    /\ registry = {}
    /\ mcp_api_key = "k1"
    /\ access_tokens = {1}
    /\ next_token = 2
    /\ NoOAuth
    /\ mcp_sessions = << >>
    /\ next_session_id = 1
    /\ NoConnection

\* the same, with or without a configured API key
InitAuth ==
    /\ now = 0
    /\ ticks = 0
    /\ registry = {}
    /\ mcp_api_key \in {NoKey, "k1"}
    /\ access_tokens = {1}
    /\ next_token = 2
    /\ NoOAuth
    /\ mcp_sessions = << >>
    /\ next_session_id = 1
    /\ NoConnection

(* ------------------------------------------------------------------ *)
(* sse_handler                                                        *)
(* ------------------------------------------------------------------ *)
\* the HTTP exchange is over: no stream is open
Idle == gen \in {"none", "done", "cancelled"}

\* sse_handler up to the return of the StreamingResponse
sse_handler(h, body) ==
    LET am == Authenticate(h, access_tokens, mcp_api_key)
        looked == IF h.mcp_session_id # NoSid
                  THEN get_session(mcp_sessions, h.mcp_session_id, now)
                  ELSE mcp_sessions
        parsed == ParseBody(body)
        client_info == IF parsed.initial_requests # <<>>
                       THEN parsed.initial_requests[1].clientInfo
                       ELSE NoInfo
    IN  /\ request' = [headers |-> h, body |-> body]
        /\ connNo' = connNo + 1
        /\ auth_method' = am
        \* neither the HTTPException nor the StreamingResponse is given a
        \* WWW-Authenticate header
        /\ www_authenticate' = None
        /\ last_keepalive' = 0
        /\ process_task' = "none"
        /\ response_queue' = <<>>
        /\ events' = <<>>
        /\ IF am = "None"
           THEN /\ status_code' = 401
                /\ response_headers' = NoSid
                /\ initial_requests' = <<>>
                /\ gen' = "none"
                /\ UNCHANGED << mcp_sessions, next_session_id >>
           ELSE /\ status_code' = 200
                /\ initial_requests' = parsed.initial_requests
                /\ gen' = "start"
                /\ IF parsed.is_initialize
                   THEN /\ mcp_sessions' =
                              create_session(looked, next_session_id,
                                  [client_info |-> client_info, auth_method |-> am], now)
                        /\ response_headers' = next_session_id
                        /\ next_session_id' = next_session_id + 1
                   ELSE /\ mcp_sessions' = looked
                        /\ response_headers' = NoSid
                        /\ UNCHANGED next_session_id
        /\ UNCHANGED << now, ticks, registry, probeVars, readerVars, bridgeVars, mcp_api_key, access_tokens, oauthVars, event_id >>

\* a client sends a request to /mcp or /sse, the N-th at most
Connect(H, L, N) ==
    /\ Idle
    /\ connNo < N
    /\ \E h \in H, body \in BodiesOver(L) : sse_handler(h, body)

(* ------------------------------------------------------------------ *)
(* HEAD /mcp                                                          *)
(* ------------------------------------------------------------------ *)
\* the mutant of HeadAuthenticated that accepts what sse_handler accepts
HeadAuthenticatedLikeStream(h, store, key) == Authenticate(h, store, key) # "None"

\* the decision of mcp_endpoint_head: a bearer token of the store, nothing else
HeadAuthenticated(h, store, key) ==
    h.authorization[1] = "Bearer " /\ h.authorization[2] \in store

\* mcp_endpoint_head: 200 for a stored bearer token, else 401 with the challenge
mcp_endpoint_head(h) ==
    /\ head_request' = h
    /\ head_response' = IF HeadAuthenticated(h, access_tokens, mcp_api_key)
                        THEN HeadResponse(200, None)
                        ELSE HeadResponse(401, Challenge)
    /\ UNCHANGED << now, ticks, registry, readerVars, bridgeVars, mcp_api_key, access_tokens,
                    mcp_sessions, next_session_id, oauthVars, requestVars, streamVars >>

HeadProbe == \E h \in ProbeHeaders : mcp_endpoint_head(h)

(* ------------------------------------------------------------------ *)
(* event_generator                                                    *)
(* ------------------------------------------------------------------ *)
\* the mutant of FirstEventId that goes on counting where the last stream ended
FirstEventIdCarriedOver(previous) == previous

\* event_id = 0 at the start of event_generator, whatever ran before
FirstEventId(previous) == 0

\* event_id = 0, last_keepalive = time.time(), and the priming event
EmitPriming ==
    /\ gen = "start"
    /\ events' = Append(events, PrimingEvent(FirstEventId(event_id)))
    /\ event_id' = FirstEventId(event_id) + 1
    /\ last_keepalive' = now
    /\ gen' = "primed"
    /\ UNCHANGED << now, ticks, globalVars, requestVars, process_task, response_queue >>

\* the endpoint event
EmitEndpoint ==
    /\ gen = "primed"
    /\ events' = Append(events, EndpointEvent(event_id))
    /\ event_id' = event_id + 1
    /\ gen' = "endpoint"
    /\ UNCHANGED << now, ticks, globalVars, requestVars, last_keepalive, process_task,
                    response_queue >>

\* asyncio.create_task(process_requests()); the generator enters its loop
\* and waits for the queue
CreateProcessTask ==
    /\ gen = "endpoint"
    /\ process_task' = "pending"
    /\ gen' = "loop"
    /\ UNCHANGED << now, ticks, globalVars, requestVars, event_id, last_keepalive,
                    response_queue, events >>

\* the process_requests task runs. registry.execute is a synchronous call and
\* the put on the unbounded queue never suspends, so the task runs from its
\* first to its last request without yielding to the event loop, and the
\* clock moves by the time the tools take.
ProcessRequests ==
    /\ process_task = "pending"
    /\ response_queue' = process_requests(initial_requests, response_queue)
    /\ now' = now + process_seconds(initial_requests)
    /\ process_task' = "done"
    /\ UNCHANGED << ticks, globalVars, requestVars, gen, event_id, last_keepalive, events >>

\* the response loop takes an item from the queue: None ends the stream,
\* anything else is sent as the next numbered event
EmitResponse ==
    /\ gen = "loop"
    /\ response_queue # <<>>
    /\ response_queue' = Tail(response_queue)
    /\ IF Head(response_queue) = Sentinel
       THEN /\ gen' = "done"
            /\ UNCHANGED << event_id, last_keepalive, events >>
       ELSE /\ events' = Append(events, ResponseEvent(event_id, Head(response_queue)))
            /\ event_id' = event_id + 1
            /\ last_keepalive' = now
            /\ UNCHANGED gen
    /\ UNCHANGED << now, ticks, globalVars, requestVars, process_task >>

\* the wait for the queue times out and a keepalive is due
Keepalive ==
    /\ gen = "loop"
    /\ process_task = "done"
    /\ response_queue = <<>>
    /\ now - last_keepalive >= keepalive_interval
    /\ events' = Append(events, KeepaliveEvent(event_id))
    /\ last_keepalive' = now
    /\ UNCHANGED << now, ticks, globalVars, requestVars, gen, event_id, process_task,
                    response_queue >>

\* the mutant of TaskAfterCancel that leaves the task scheduled
TaskAfterCancelLeftPending(position, task) == task

\* process_task.cancel() in the handler of CancelledError, which encloses
\* the response loop: a task that has not run yet is cancelled, a finished
\* one stays finished; before the loop no task exists
TaskAfterCancel(position, task) ==
    IF position = "loop" /\ task = "pending" THEN "cancelled" ELSE task

\* the client disconnects: the generator is cancelled where it is suspended;
\* inside the response loop the handler cancels the process task
Disconnect ==
    /\ gen \in {"start", "primed", "endpoint", "loop"}
    /\ gen' = "cancelled"
    /\ process_task' = TaskAfterCancel(gen, process_task)
    /\ UNCHANGED << now, ticks, globalVars, requestVars, event_id, last_keepalive,
                    response_queue, events >>

(* ------------------------------------------------------------------ *)
(* read_requests                                                      *)
(* ------------------------------------------------------------------ *)
\* the lines the request stream of read_requests is drawn from
ReadLines ==
    { InitializeReq, NotificationReq, ListReq, CallFastReq, MalformedLine, NonObjectLine }

\* read_requests is reading the request stream of an open response stream
\* whose loop waits for the queue
InitRead ==
    /\ now = 0
    /\ ticks = 0
    /\ registry = {}
    /\ mcp_api_key = "k1"
    /\ access_tokens = {1}
    /\ next_token = 2
    /\ NoOAuth
    /\ mcp_sessions = << >>
    /\ next_session_id = 1
    /\ connNo = 1
    /\ \E body \in BodiesOver(ReadLines) :
          /\ request = [headers |-> Headers(NoAuthorization, "k1", NoSid), body |-> body]
          /\ unread = body
    /\ status_code = 200
    /\ response_headers = NoSid
    /\ www_authenticate = None
    /\ head_request = NoRequest.headers
    /\ head_response = NoHeadResponse
    /\ auth_method = "api_key"
    /\ initial_requests = <<>>
    /\ gen = "loop"
    /\ event_id = 2
    /\ last_keepalive = 0
    /\ process_task = "none"
    /\ response_queue = <<>>
    /\ events = << PrimingEvent(0), EndpointEvent(1) >>
    /\ reader = "reading"
    /\ call_tasks = <<>>
    /\ bridge_tools = {}
    /\ bridge_calls = <<>>

\* one iteration of "async for line in request.stream()": a line that is no
\* JSON is logged and skipped; a request with an id gets a task of its own,
\* which is created and not awaited; a notification is logged. On a JSON
\* value that is no object the test '"id" in request_data' or the call
\* request_data.get raises, the except clause logs, and the finally clause
\* puts None.
ReadLine ==
    /\ reader = "reading"
    /\ unread # <<>>
    /\ unread' = Tail(unread)
    /\ LET line == Head(unread)
       IN  IF line.kind = "malformed"
           THEN UNCHANGED << reader, call_tasks, response_queue >>
           ELSE IF line.kind = "nonobject"
           THEN /\ reader' = "closed"
                /\ response_queue' = Append(response_queue, Sentinel)
                /\ UNCHANGED call_tasks
           ELSE IF line.id # NoId
           THEN /\ call_tasks' = Append(call_tasks, line)
                /\ UNCHANGED << reader, response_queue >>
           ELSE UNCHANGED << reader, call_tasks, response_queue >>
    /\ UNCHANGED << now, ticks, registry, probeVars, bridgeVars, mcp_api_key, access_tokens,
                    mcp_sessions, next_session_id, oauthVars, requestVars, gen,
                    event_id, last_keepalive, process_task, events >>

\* the request stream ends: the finally clause puts None on the queue
EndOfStream ==
    /\ reader = "reading"
    /\ unread = <<>>
    /\ reader' = "closed"
    /\ response_queue' = Append(response_queue, Sentinel)
    /\ UNCHANGED << now, ticks, registry, probeVars, bridgeVars, mcp_api_key, access_tokens,
                    mcp_sessions, next_session_id, oauthVars, requestVars, gen,
                    event_id, last_keepalive, process_task, events, unread, call_tasks >>

\* the event loop runs the oldest task created by asyncio.create_task: it
\* can do so whenever read_requests is suspended in the receive of the next
\* chunk, and after read_requests has returned
RunCallTask ==
    /\ call_tasks # <<>>
    /\ response_queue' = response_queue \o handle_mcp_request(Head(call_tasks))
    /\ now' = now + handle_seconds(Head(call_tasks))
    /\ call_tasks' = Tail(call_tasks)
    /\ UNCHANGED << ticks, registry, probeVars, bridgeVars, mcp_api_key, access_tokens,
                    mcp_sessions, next_session_id, oauthVars, requestVars, gen,
                    event_id, last_keepalive, process_task, events, reader, unread >>

(* ------------------------------------------------------------------ *)
(* mcp_stdio_bridge.handle_request                                    *)
(* ------------------------------------------------------------------ *)
\* tool names of the bundles as the HTTP server lists them, each written as
\* the sequence of its words and of the separators "." and "_" between them
ListedNames ==
    { << "gohighlevel", ".", "read", "_", "contacts" >>,
      << "gohighlevel", ".", "send", "_", "sms" >>,
      << "gohighlevel", ".", "sync", "_", "all", "_", "contacts" >>,
      << "gohighlevel", ".", "analyze", "_", "contact" >>,
      << "quickbooks", ".", "ledger", "_", "summary" >>,
      << "google", "_", "workspace", ".", "list", "_", "assets" >>,
      << "google", "_", "workspace", ".", "sync", "_", "sheet" >>,
      << "amazon", ".", "order", "_", "digest" >>,
      << "cloudflare", ".", "list", "_", "dns" >>,
      << "godaddy", ".", "list", "_", "domains" >>,
      << "freshbooks", ".", "list", "_", "invoices" >>,
      << "digitalocean", ".", "list", "_", "droplets" >> }

\* str.replace(old, new): every occurrence
Replace(s, old, new) == [i \in DOMAIN s |-> IF s[i] = old THEN new ELSE s[i]]

\* str.replace(old, new, 1): the first occurrence only
ReplaceFirst(s, old, new) ==
    LET found == { i \in DOMAIN s : s[i] = old }
    IN  IF found = {} THEN s
        ELSE LET first == CHOOSE i \in found : \A j \in found : i <= j
             IN  [s EXCEPT ![first] = new]

\* tools/list: mcp_tool_name = tool_name.replace(".", "_")
McpToolName(tool_name) == Replace(tool_name, ".", "_")

\* tools/call: internal_tool_name = mcp_tool_name.replace("_", ".", 1)
InternalToolName(mcp_tool_name) == ReplaceFirst(mcp_tool_name, "_", ".")

\* the bridge answers tools/list with the MCP names of the listed tools
BridgeToolsList ==
    /\ bridge_tools' = { McpToolName(tool_name) : tool_name \in ListedNames }
    /\ UNCHANGED << now, ticks, registry, probeVars, readerVars, mcp_api_key,
                    access_tokens, mcp_sessions, next_session_id, oauthVars,
                    requestVars, streamVars, bridge_calls >>

\* the client calls a tool by a name of the listing, and the bridge posts
\* to /mcp/run/<internal_tool_name>
BridgeToolsCall ==
    /\ Len(bridge_calls) < MaxBridgeCalls
    /\ \E mcp_tool_name \in bridge_tools :
          bridge_calls' = Append(bridge_calls,
              [mcp_tool_name |-> mcp_tool_name,
               internal_tool_name |-> InternalToolName(mcp_tool_name)])
    /\ UNCHANGED << now, ticks, registry, probeVars, readerVars, mcp_api_key,
                    access_tokens, mcp_sessions, next_session_id, oauthVars,
                    requestVars, streamVars, bridge_tools >>

(* ------------------------------------------------------------------ *)
(* The environment                                                    *)
(* ------------------------------------------------------------------ *)
\* the clock advances
Tick(D) ==
    /\ ticks < MaxTicks
    /\ \E d \in D : now' = now + d
    /\ ticks' = ticks + 1
    /\ UNCHANGED << globalVars, requestVars, streamVars >>

\* the TTL of an access token elapses. The store is read by sse_handler
\* only, so an expiry during a stream is the same as one after it.
ExpireToken ==
    /\ Idle
    /\ \E t \in access_tokens : access_tokens' = access_tokens \ {t}
    /\ UNCHANGED << now, ticks, registry, probeVars, readerVars, bridgeVars, mcp_api_key, mcp_sessions, next_session_id, oauthVars,
                    requestVars, streamVars >>

\* the TTL of an authorization code (600 s) elapses
ExpireCode ==
    /\ \E c \in DOMAIN auth_codes :
          auth_codes' = [k \in DOMAIN auth_codes \ {c} |-> auth_codes[k]]
    /\ UNCHANGED << now, ticks, registry, probeVars, readerVars, bridgeVars, mcp_api_key, access_tokens, refresh_tokens, next_code,
                    next_token, token_request, token_response, redeemed, mcp_sessions,
                    next_session_id, requestVars, streamVars >>

\* the TTL of a refresh token (7 days) elapses
ExpireRefreshToken ==
    /\ \E t \in refresh_tokens : refresh_tokens' = refresh_tokens \ {t}
    /\ UNCHANGED << now, ticks, registry, probeVars, readerVars, bridgeVars, mcp_api_key, access_tokens, auth_codes, next_code,
                    next_token, token_request, token_response, redeemed, mcp_sessions,
                    next_session_id, requestVars, streamVars >>

(* ------------------------------------------------------------------ *)
(* /authorize and /token                                              *)
(* ------------------------------------------------------------------ *)
\* oauth_authorize: a request that passes the three checks stores a fresh
\* code with its code_data; any other is answered 400 and changes nothing
oauth_authorize(client_id, redirect_uri, response_type, scope, code_challenge) ==
    IF client_id # CLIENT_ID \/ redirect_uri # REDIRECT_URI \/ response_type # "code"
    THEN UNCHANGED << auth_codes, next_code, redeemed >>
    ELSE /\ auth_codes' =
              [c \in DOMAIN auth_codes \cup {next_code} |->
                  IF c = next_code
                  THEN [client_id |-> client_id, redirect_uri |-> redirect_uri,
                        scope |-> scope, code_challenge |-> code_challenge]
                  ELSE auth_codes[c]]
         /\ redeemed' = [c \in DOMAIN redeemed \cup {next_code} |->
                            IF c = next_code THEN 0 ELSE redeemed[c]]
         /\ next_code' = next_code + 1

Authorize ==
    /\ next_code <= MaxCodes
    /\ \E client_id \in ClientIds, redirect_uri \in RedirectUris,
          response_type \in ResponseTypes, scope \in Scopes,
          code_challenge \in Challenges :
          oauth_authorize(client_id, redirect_uri, response_type, scope, code_challenge)
    /\ UNCHANGED << now, ticks, registry, probeVars, readerVars, bridgeVars, mcp_api_key, access_tokens, refresh_tokens, next_token,
                    token_request, token_response, mcp_sessions, next_session_id,
                    requestVars, streamVars >>

\* the mutant of CodesAfterLookup that leaves the code in the store
CodesAfterLookupKept(codes, code) == codes

\* redis_client.delete(f"auth_code:{code}") once the code was found
CodesAfterLookup(codes, code) == [c \in DOMAIN codes \ {code} |-> codes[c]]

\* the checks of oauth_token between the deletion of the code and the issue
\* of the tokens: the detail of the HTTPException, None if all of them pass
CodeChecks(r, code_data) ==
    IF code_data.client_id # r.client_id THEN "Mismatched client_id"
    ELSE IF code_data.code_challenge # None /\ r.code_verifier = None
    THEN "code_verifier required for PKCE"
    ELSE IF code_data.code_challenge # None /\ S256(r.code_verifier) # code_data.code_challenge
    THEN "Invalid code_verifier"
    ELSE IF code_data.code_challenge = None
            /\ (r.client_secret = None \/ r.client_secret # CLIENT_SECRET)
    THEN "Invalid client_secret"
    ELSE IF code_data.redirect_uri # r.redirect_uri THEN "Mismatched redirect_uri"
    ELSE None

\* a POST /token answered 400 before anything is written
Reject(detail) ==
    /\ token_response' = TokenResponse(400, detail, NoToken, NoToken)
    /\ UNCHANGED << access_tokens, refresh_tokens, auth_codes, next_token, redeemed >>

\* oauth_token. The handler is a coroutine without an await in its body and
\* its Redis calls are synchronous, so on the event loop it runs as one step.
oauth_token(r) ==
    /\ token_request' = r
    /\ IF r.grant_type # "authorization_code" THEN Reject("Invalid grant_type")
       ELSE IF r.client_id # CLIENT_ID THEN Reject("Invalid client_id")
       ELSE IF r.redirect_uri # REDIRECT_URI THEN Reject("Invalid redirect_uri")
       ELSE IF r.code \notin DOMAIN auth_codes
       THEN Reject("Invalid or expired authorization code")
       ELSE LET code_data == auth_codes[r.code]
                failed == CodeChecks(r, code_data)
            IN  /\ auth_codes' = CodesAfterLookup(auth_codes, r.code)
                /\ IF failed # None
                   THEN /\ token_response' = TokenResponse(400, failed, NoToken, NoToken)
                        /\ UNCHANGED << access_tokens, refresh_tokens, next_token, redeemed >>
                   ELSE /\ access_tokens' = access_tokens \cup {next_token}
                        /\ refresh_tokens' = refresh_tokens \cup {next_token}
                        /\ next_token' = next_token + 1
                        \* auth_code_data["scope"].strip() raises AttributeError
                        \* when /authorize was called without a scope: the
                        \* tokens are stored and the request is answered 500
                        /\ IF code_data.scope = None
                           THEN /\ token_response' =
                                      TokenResponse(500, "Internal Server Error",
                                                    NoToken, NoToken)
                                /\ UNCHANGED redeemed
                           ELSE /\ token_response' =
                                      TokenResponse(200, None, next_token, next_token)
                                /\ redeemed' = [redeemed EXCEPT ![r.code] = @ + 1]

\* the forms posted to /token: every pairing of secret and verifier with
\* the constants the client is configured with, and one form for each of
\* the three fields checked before the code is looked up
TokenRequests ==
    { TokenRequest("authorization_code", code, REDIRECT_URI, CLIENT_ID,
                   client_secret, code_verifier) :
        code \in 1..MaxCodes, client_secret \in ClientSecrets,
        code_verifier \in Verifiers }
    \cup
    { TokenRequest(grant_type, code, redirect_uri, client_id, CLIENT_SECRET, "v1") :
        grant_type \in GrantTypes, code \in 1..MaxCodes,
        redirect_uri \in RedirectUris, client_id \in ClientIds }

Token ==
    /\ \E r \in TokenRequests : oauth_token(r)
    /\ UNCHANGED << now, ticks, registry, probeVars, readerVars, bridgeVars, mcp_api_key, next_code, mcp_sessions, next_session_id,
                    requestVars, streamVars >>

(* ------------------------------------------------------------------ *)
(* Specifications                                                     *)
(* ------------------------------------------------------------------ *)
\* one request to the streaming endpoint, with any body
Next ==
    \/ Connect(StreamHeaders, StreamLines, 1)
    \/ EmitPriming
    \/ EmitEndpoint
    \/ CreateProcessTask
    \/ ProcessRequests
    \/ EmitResponse
    \/ Keepalive
    \/ Disconnect
    \/ Tick({keepalive_interval})
    \/ ExpireToken

Spec == Init /\ [][Next]_vars

\* consecutive requests to the streaming endpoint, with every combination
\* of request headers
NextAuth ==
    \/ Connect(AllHeaders, AuthLines, MaxConnections)
    \/ EmitPriming
    \/ EmitEndpoint
    \/ CreateProcessTask
    \/ ProcessRequests
    \/ EmitResponse
    \/ Keepalive
    \/ Disconnect
    \/ Tick({keepalive_interval})
    \/ ExpireToken

\* the streaming specification with the scheduling of the response loop:
\* the wait for the queue times out after one second, so a keepalive that
\* stays due is sent
SpecHeartbeat == Init /\ [][Next]_vars /\ WF_vars(Keepalive)

SpecAuth == InitAuth /\ [][NextAuth]_vars

\* the stream has sent every response of its body
Drained == gen = "loop" /\ process_task = "done" /\ response_queue = <<>>

\* three consecutive requests that create and present sessions, more than
\* an hour apart or not; each client reads its stream to the last response
\* and disconnects
NextSession ==
    \/ Connect(SessionRequestHeaders, SessionLines, 3)
    \/ EmitPriming
    \/ EmitEndpoint
    \/ CreateProcessTask
    \/ ProcessRequests
    \/ EmitResponse
    \/ Drained /\ Disconnect
    \/ Idle /\ Tick({SessionIdleSeconds + 1})

SpecSession == InitSession /\ [][NextSession]_vars

\* HEAD probes next to one streaming request
NextProbe ==
    \/ HeadProbe
    \/ Connect(AllHeaders, AuthLines, 1)
    \/ EmitPriming
    \/ EmitEndpoint
    \/ CreateProcessTask
    \/ ProcessRequests
    \/ EmitResponse
    \/ Disconnect
    \/ ExpireToken

SpecProbe == InitAuth /\ [][NextProbe]_vars

\* read_requests next to the response loop that takes from its queue
NextRead ==
    \/ ReadLine
    \/ EndOfStream
    \/ RunCallTask
    \/ EmitResponse

SpecRead == InitRead /\ [][NextRead]_vars

\* the stdio bridge: a listing and calls by the listed names
NextBridge ==
    \/ BridgeToolsList
    \/ BridgeToolsCall

SpecBridge == InitSession /\ [][NextBridge]_vars

\* the authorization-code flow against the credential store
NextOAuth ==
    \/ Authorize
    \/ Token
    \/ ExpireCode
    \/ ExpireToken
    \/ ExpireRefreshToken

SpecOAuth == InitOAuth /\ [][NextOAuth]_vars

(* ------------------------------------------------------------------ *)
(* Properties of the stream                                           *)
(* ------------------------------------------------------------------ *)
\* the lines of the current body that are requests with an id
Calls == { i \in DOMAIN request.body :
             request.body[i].kind = "request" /\ request.body[i].id # NoId }

\* the positions of the response events on the stream
ResponseEvents == { i \in DOMAIN events : events[i].kind = "response" }

\* the events that carry an id, in emission order
Numbered == SelectSeq(events, LAMBDA e : e.id # NoEventId)

\* C1: a stream whose body holds N requests with an id never has more than N
\* responses enqueued or emitted: a request without an id (a notification)
\* causes none.
C1_OnlyCallsAreAnswered ==
    Cardinality(ResponseEvents) + Len(response_queue) <= Cardinality(Calls)

\* C2 (its safety half): every response event answers a request of the
\* body: no response is emitted with an id that was not in the body, and no
\* id is answered twice (for each id there are no more response events than
\* requests with that id).
C2_ResponsesAnswerCalls ==
    \A i \in ResponseEvents :
        /\ \E c \in Calls : request.body[c].id = events[i].data.id
        /\ Cardinality({ j \in ResponseEvents : events[j].data.id = events[i].data.id })
             <= Cardinality({ c \in Calls : request.body[c].id = events[i].data.id })

\* C3: on every connection the events that carry an id are numbered
\* 0, 1, 2, ... in emission order: the priming event is 0, the endpoint event
\* is 1, the k-th response event is k+1; a keepalive carries no id and takes
\* none, and event_id is the number the next event gets.
C3_EventIdsCountFromZero ==
    /\ \A k \in DOMAIN Numbered :
          /\ Numbered[k].id = k - 1
          /\ Numbered[k].kind = (IF k = 1 THEN "priming"
                                 ELSE IF k = 2 THEN "endpoint" ELSE "response")
    /\ \A i \in DOMAIN events : events[i].kind = "keepalive" => events[i].id = NoEventId
    /\ events # <<>> => events[1].id = 0 /\ event_id = Len(Numbered)

\* C3 witness: the second connection has sent its priming event, its endpoint
\* event, two responses and a keepalive
C3_Witness ==
    /\ connNo = 2
    /\ Len(events) = 5
    /\ Cardinality(ResponseEvents) = 2
    /\ events[5].kind = "keepalive"

\* C7: response events are emitted in completion order, not body order: when
\* the body lists a call of the slow tool first and a call that completes at
\* once second, the response to the second is emitted before the response
\* to the first.
C7_CompletionOrder ==
    ( /\ registry = BundledTools
      /\ Len(request.body) = 2
      /\ request.body[1] = CallSlowReq
      /\ request.body[2] \in { ListReq, CallFastReq }
      /\ Cardinality(ResponseEvents) = 2 )
    => events[3].data.id = request.body[2].id

\* what the stream does instead: the k-th response event answers the k-th
\* request of the body, whatever the tools' durations (process_requests
\* awaits each request before it starts the next)
ResponsesInBodyOrder ==
    \A k \in DOMAIN Numbered :
        k >= 3 => /\ k - 2 \in DOMAIN initial_requests
                  /\ Numbered[k].data.id = initial_requests[k - 2].id

\* a stream that has emitted both responses of a body whose first call is slow
SlowCallFirst ==
    /\ registry = BundledTools
    /\ Len(request.body) = 2
    /\ request.body[1] = CallSlowReq
    /\ request.body[2] = ListReq
    /\ Cardinality(ResponseEvents) = 2

\* C8: the response to a tools/call of a tool that is not registered is the
\* error -32601, whether it is still on the queue or already on the stream.
C8_UnknownToolIsMethodNotFound ==
    /\ \A i \in ResponseEvents :
          events[i].data.id = CallUnknownReq.id =>
              events[i].data.kind = "error" /\ events[i].data.code = METHOD_NOT_FOUND
    /\ \A i \in DOMAIN response_queue :
          response_queue[i].id = CallUnknownReq.id =>
              response_queue[i].kind = "error" /\ response_queue[i].code = METHOD_NOT_FOUND

\* C9: an authenticated request whose body is the single initialize request
\* with id 1 is answered with an Mcp-Session-Id header, and its stream is the
\* priming event with id 0, the endpoint event with id 1 and then the event
\* with id 2 that carries the result for request id 1, in this order.
C9_InitializeScenario ==
    (request.body = << InitializeReq >> /\ status_code = 200) =>
        /\ response_headers # NoSid
        /\ response_headers \in DOMAIN mcp_sessions
        /\ Len(events) >= 1 => events[1] = PrimingEvent(0)
        /\ Len(events) >= 2 => events[2] = EndpointEvent(1)
        /\ Len(events) >= 3 => events[3] = ResponseEvent(2, Response("1", "result", 0, {}))
        /\ gen = "loop" /\ process_task = "done" =>
              Len(events) >= 3 \/ response_queue = << Response("1", "result", 0, {}) >>

\* C9 witness: the three events of the scenario are on the stream
C9_Witness ==
    /\ request.body = << InitializeReq >>
    /\ status_code = 200
    /\ Len(events) = 3
    /\ events[3].id = 2

(* ------------------------------------------------------------------ *)
(* Properties of the authentication                                   *)
(* ------------------------------------------------------------------ *)
\* a step that is a new request to the streaming endpoint
NewRequest == connNo' = connNo + 1

\* the new request presents a bearer token that is in the credential store
PresentsStoredBearer ==
    /\ request'.headers.authorization[1] = "Bearer "
    /\ request'.headers.authorization[2] \in access_tokens

\* the new request presents the configured API key
PresentsApiKey ==
    /\ request'.headers.x_api_key # NoHeader
    /\ request'.headers.x_api_key = mcp_api_key

\* C4: a request that presents neither a bearer token of the credential store
\* nor the configured API key is answered 401; it opens no stream, creates no
\* session, changes no session (no last_activity is refreshed) and none of its
\* requests is parsed for dispatch or dispatched; and as long as it is the
\* current request no event is emitted.
C4_UnauthenticatedIsRejected ==
    [][ /\ (NewRequest /\ ~PresentsStoredBearer /\ ~PresentsApiKey) =>
              /\ status_code' = 401
              /\ gen' = "none"
              /\ mcp_sessions' = mcp_sessions
              /\ response_headers' = NoSid
              /\ initial_requests' = <<>>
              /\ process_task' = "none"
              /\ response_queue' = <<>>
              /\ events' = <<>>
        /\ (status_code = 401 /\ ~NewRequest) =>
              /\ mcp_sessions' = mcp_sessions
              /\ process_task' = "none"
              /\ response_queue' = <<>>
              /\ events' = <<>>
      ]_vars

\* C4 witness: a rejected request that named an existing session, after the
\* clock had moved on since that session's last activity, with an initialize
\* request in its body and a bearer token that is not in the store
C4_Witness ==
    /\ status_code = 401
    /\ request.body # <<>>
    /\ request.headers.authorization[1] = "Bearer "
    /\ request.headers.mcp_session_id \in DOMAIN mcp_sessions
    /\ mcp_sessions[request.headers.mcp_session_id].last_activity < now

\* C10: the authentication decision is a function of the request headers and
\* the credential store: oauth when a Bearer token of the store is presented;
\* otherwise api_key when the X-API-Key header is present and equals the
\* configured key, also when a bearer token was presented and not found;
\* otherwise the request is not authenticated and answered 401.
C10_AuthenticationDecision ==
    [][ NewRequest =>
          /\ auth_method' = (IF PresentsStoredBearer THEN "oauth"
                             ELSE IF PresentsApiKey THEN "api_key" ELSE "None")
          /\ (status_code' = 401) = (~PresentsStoredBearer /\ ~PresentsApiKey)
          /\ (status_code' = 200) = (PresentsStoredBearer \/ PresentsApiKey)
      ]_vars

\* C10 witness: a request authenticated by its API key although it presented
\* a bearer token, which is not in the store
C10_Witness ==
    /\ auth_method = "api_key"
    /\ status_code = 200
    /\ request.headers.authorization[1] = "Bearer "
    /\ request.headers.authorization[2] \notin access_tokens

(* ------------------------------------------------------------------ *)
(* Claims about /authorize and /token                                 *)
(* ------------------------------------------------------------------ *)
InvalidOrExpired == "Invalid or expired authorization code"

\* the step is a POST /token that presents a code already answered with tokens
LaterRedemption ==
    /\ Token
    /\ token_request'.code \in DOMAIN redeemed
    /\ redeemed[token_request'.code] >= 1

\* the form passes the three checks oauth_token makes before it looks the
\* code up
PassesFormChecks(r) ==
    /\ r.grant_type = "authorization_code"
    /\ r.client_id = CLIENT_ID
    /\ r.redirect_uri = REDIRECT_URI

PkceExchange ==
    /\ Token
    /\ PassesFormChecks(token_request')
    /\ token_request'.code \in DOMAIN auth_codes
    /\ auth_codes[token_request'.code].code_challenge # None

\* C6: for a code stored with a code_challenge, POST /token succeeds if and
\* only if base64url(sha256(code_verifier)) equals the stored challenge; a
\* missing or any other verifier is answered 400 and no access or refresh
\* token is stored.
C6_PkceVerifierDecides ==
    [][PkceExchange =>
         IF /\ token_request'.code_verifier # None
            /\ S256(token_request'.code_verifier)
                   = auth_codes[token_request'.code].code_challenge
         THEN /\ token_response'.status = 200
              /\ token_response'.access_token \in access_tokens'
              /\ token_response'.refresh_token \in refresh_tokens'
         ELSE /\ token_response'.status = 400
              /\ access_tokens' = access_tokens
              /\ refresh_tokens' = refresh_tokens]_vars

\* the exchange with the right verifier for a code without a scope: tokens
\* are stored, none is returned
C6_Witness ==
    /\ token_request # NoTokenRequest
    /\ token_request.code_verifier = "v1"
    /\ token_request.client_secret = None
    /\ token_response.status = 500
    /\ access_tokens # {}

(* ------------------------------------------------------------------ *)
(* Claims about the 401 challenge and the HEAD probe                  *)
(* ------------------------------------------------------------------ *)
\* C11: the 401 that the streaming endpoint returns to an unauthenticated
\* request carries the WWW-Authenticate challenge that names the
\* protected-resource metadata document.
C11_RejectionCarriesChallenge ==
    status_code = 401 => www_authenticate = Challenge

\* a streaming request was rejected
C11_Witness ==
    /\ connNo >= 1
    /\ status_code = 401
    /\ auth_method = "None"

\* a step that is a HEAD /mcp with a new request or a new answer
ProbeStep == << head_request, head_response >>' # << head_request, head_response >>

\* the probe presents a bearer token that is in the credential store
ProbePresentsStoredBearer ==
    /\ head_request'.authorization[1] = "Bearer "
    /\ head_request'.authorization[2] \in access_tokens

BodyHasInitialize(body) ==
    \E i \in DOMAIN body : body[i].kind = "request" /\ body[i].method = "initialize"

\* the session ids of the table
SessionIds == DOMAIN mcp_sessions

\* C13: a session is added to the session table only by an authenticated
\* streaming request whose body contains an initialize request, one session
\* under a fresh id; the Mcp-Session-Id response header is present exactly
\* when the request created a session, and it is that session's id.
C13_SessionsOnlyByInitialize ==
    [][ /\ SessionIds' # SessionIds =>
              /\ NewRequest
              /\ status_code' = 200
              /\ BodyHasInitialize(request'.body)
              /\ response_headers' \notin SessionIds
              /\ SessionIds' = SessionIds \cup {response_headers'}
        /\ NewRequest => ((response_headers' # NoSid) = (SessionIds' # SessionIds))
        /\ ~NewRequest => response_headers' = response_headers
      ]_vars

\* the third request presented the id of one of two sessions with a body
\* without initialize, and got no Mcp-Session-Id
C13_Witness ==
    /\ connNo = 3
    /\ status_code = 200
    /\ Cardinality(SessionIds) = 2
    /\ request.headers.mcp_session_id \in SessionIds
    /\ request.body = << ListReq >>
    /\ response_headers = NoSid

\* the session's last activity is more than an hour ago
Expired(s) == now - mcp_sessions[s].last_activity > SessionIdleSeconds

\* C14: a session whose last_activity is more than one hour in the past is
\* expired: a lookup with its id does not find it and does not revive it
\* (after the request that presents the id the session is not in the table).
C14_ExpiredSessionIsNotFound ==
    [][ \A s \in SessionIds :
          ( /\ NewRequest
            /\ status_code' = 200
            /\ request'.headers.mcp_session_id = s
            /\ Expired(s) ) => s \notin SessionIds'
      ]_vars

\* a session was looked up more than an hour after its creation, which was
\* its last activity, and is in the table with a fresh last_activity
C14_Witness ==
    \E s \in SessionIds :
        /\ request.headers.mcp_session_id = s
        /\ mcp_sessions[s].last_activity = now
        /\ mcp_sessions[s].last_activity - mcp_sessions[s].created_at > SessionIdleSeconds

\* C15: an authenticated streaming request that presents an id of the
\* session table sets that session's last_activity to the current time and
\* leaves its client_info and created_at as they were; every other session
\* is unchanged, and a request that presents an id that is not in the table
\* changes no session.
C15_LookupRefreshesThatSessionOnly ==
    [][ (NewRequest /\ status_code' = 200) =>
          \A s \in SessionIds :
              /\ s \in SessionIds'
              /\ mcp_sessions'[s] =
                    IF s = request'.headers.mcp_session_id
                    THEN [mcp_sessions[s] EXCEPT !.last_activity = now]
                    ELSE mcp_sessions[s]
      ]_vars

\* with two sessions in the table, one was presented an hour after both
\* were created: it is refreshed, the other is not
C15_Witness ==
    /\ connNo = 3
    /\ status_code = 200
    /\ \E s, t \in SessionIds :
          /\ s # t
          /\ request.headers.mcp_session_id = s
          /\ mcp_sessions[s].last_activity = now
          /\ mcp_sessions[s].created_at < now
          /\ mcp_sessions[t].created_at < now
          /\ mcp_sessions[t].last_activity < now

\* the lines of the current body that are initialize requests
InitializeLines ==
    { i \in DOMAIN request.body :
        request.body[i].kind = "request" /\ request.body[i].method = "initialize" }

\* C16: a streaming request whose body contains several initialize requests
\* creates exactly one session and returns its id as the Mcp-Session-Id,
\* and once the stream has sent its responses every initialize request has
\* its own response event, the result for its id.
C16_SeveralInitializeOneSession ==
    /\ [][ ( /\ NewRequest
             /\ status_code' = 200
             /\ Cardinality(InitializeLines') >= 2 ) =>
               /\ Cardinality(SessionIds' \ SessionIds) = 1
               /\ response_headers' \in SessionIds' \ SessionIds ]_vars
    /\ []( (status_code = 200 /\ Drained /\ Cardinality(InitializeLines) >= 2) =>
              \A i \in InitializeLines :
                  /\ i + 2 \in DOMAIN Numbered
                  /\ Numbered[i + 2].data = Response(request.body[i].id, "result", 0, {}) )

\* the two initialize requests of one body were answered and one session
\* was created
C16_Witness ==
    /\ request.body = << InitializeReq, InitializeReqB >>
    /\ Drained
    /\ Len(events) = 4
    /\ Cardinality(SessionIds) = 1
    /\ response_headers \in SessionIds

\* C17: the client_info stored in a newly created session is the clientInfo
\* of an initialize request of the body, wherever it stands in the body.
C17_ClientInfoOfInitialize ==
    [][ (NewRequest /\ status_code' = 200 /\ SessionIds' # SessionIds) =>
          \E i \in InitializeLines' :
              mcp_sessions'[response_headers'].client_info.client_info
                 = request'.body[i].clientInfo
      ]_vars

\* a session created by a body whose initialize request is its second
\* line, with the empty client_info of the first line
C17_Witness ==
    /\ request.body = << ListReq, InitializeReq >>
    /\ response_headers \in SessionIds
    /\ mcp_sessions[response_headers].client_info.client_info = NoInfo

(* ------------------------------------------------------------------ *)
(* Claims about the end of a stream                                   *)
(* ------------------------------------------------------------------ *)
\* the step in which the process_requests task runs to its end
DispatcherFinishes == process_task = "pending" /\ process_task' = "done"

\* C18: when every request of the body has been handled the dispatcher
\* pushes the end-of-stream sentinel onto the connection's queue (so that
\* the response loop ends the stream without a disconnect of the client).
C18_DispatcherPushesSentinel ==
    [][ DispatcherFinishes =>
          /\ response_queue' # <<>>
          /\ response_queue'[Len(response_queue')] = Sentinel
      ]_vars

\* what the stream does instead: it never ends by itself
StreamNeverCompletes == gen # "done"

\* every response was sent, a keepalive interval has passed and the stream
\* is still open, sending keepalives
C18_Witness ==
    /\ Drained
    /\ Cardinality(ResponseEvents) >= 1
    /\ events[Len(events)].kind = "keepalive"

\* the stream of the current request was cancelled by a disconnect
Disconnected == gen = "cancelled"

\* C19: when the client disconnects, the dispatch task is cancelled and the
\* queue is no longer drained: the disconnect itself enqueues and emits
\* nothing, no dispatch task is left to run, and as long as no new request
\* arrives nothing is enqueued or emitted and the task stays as it is.
C19_DisconnectCancelsDispatch ==
    /\ [](Disconnected => process_task # "pending")
    /\ [][ /\ (~Disconnected /\ Disconnected') =>
                /\ events' = events
                /\ response_queue' = response_queue
          /\ (Disconnected /\ ~NewRequest) =>
                /\ events' = events
                /\ response_queue' = response_queue
                /\ process_task' = process_task
                /\ Disconnected' ]_vars

\* the client disconnected before the dispatch task ran: a call of the body
\* is unanswered and stays so
C19_Witness ==
    /\ Disconnected
    /\ process_task = "cancelled"
    /\ Cardinality(Calls) >= 1
    /\ response_queue = <<>>
    /\ ResponseEvents = {}

(* ------------------------------------------------------------------ *)
(* Claims about errors of tool calls                                  *)
(* ------------------------------------------------------------------ *)
\* the request is a tools/call whose execution raises
CallRaises(req) ==
    req.kind = "request" /\ req.method = "tools/call" /\ Execute(req.name) = "raise"

\* the text str(e) gives for the exception of a raising call
ExpectedMessage(req) ==
    IF req.name \in registry
    THEN << "SendSMSTool.run() missing 2 required positional arguments: 'contact_id' and 'message'" >>
    ELSE << "\"", "No tool registered with name '", req.name, "'", "\"" >>

\* the body of the current request holds a call that raises
BodyRaises == \E i \in DOMAIN request.body : CallRaises(request.body[i])

\* C20: an exception raised while a tools/call is executed gives the error
\* response -32603 with the text of the exception for that request id; the
\* stream stays open and every other request of the body has its own
\* response: the k-th response event answers the k-th request, and when
\* the dispatcher is done no request is left without a response.
C20_ToolExceptionIsAnErrorResponse ==
    (status_code = 200 /\ BodyRaises) =>
        /\ \A k \in DOMAIN Numbered :
              k >= 3 =>
                LET req == initial_requests[k - 2]
                    data == Numbered[k].data
                IN  /\ data.id = req.id
                    /\ CallRaises(req) =>
                          data = ErrorResponse(req.id, INTERNAL_ERROR, ExpectedMessage(req))
                    /\ ~CallRaises(req) =>
                          (data.kind = "error") = (req.method = "notifications/initialized")
        /\ process_task = "done" =>
              Len(response_queue) + Cardinality(ResponseEvents)
                 = Cardinality({ i \in DOMAIN initial_requests :
                                   initial_requests[i].kind = "request" })
        /\ gen # "done"

\* a registered tool raised on the first call of the body, and the second
\* call of the body was answered with its result
C20_Witness ==
    /\ registry = BundledTools
    /\ request.body = << CallRaisesReq, CallFastReq >>
    /\ Drained
    /\ Len(events) = 4
    /\ events[3].data.kind = "error"
    /\ events[4].data = Response(CallFastReq.id, "result", 0, {})

(* ------------------------------------------------------------------ *)
(* Claims about heartbeats                                            *)
(* ------------------------------------------------------------------ *)
\* the step in which the process_requests task runs
DispatchStep == process_task = "pending" /\ process_task' = "done"

\* the events the step appends to the stream
NewEvents == { events'[i] : i \in (Len(events) + 1)..Len(events') }

\* C21: a slow tool call delays only its own response: while it executes,
\* heartbeats keep being emitted on its connection at the heartbeat
\* interval, so a dispatch that lasts a heartbeat interval or longer has a
\* heartbeat emitted before it ends.
C21_HeartbeatsDuringSlowCall ==
    [][ (DispatchStep /\ now' - now >= keepalive_interval)
          => \E e \in NewEvents : e.kind = "keepalive" ]_vars

\* the slow tool has run for longer than a heartbeat interval and the
\* stream holds the priming and the endpoint event only
C21_Witness ==
    /\ registry = BundledTools
    /\ request.body = << CallSlowReq >>
    /\ process_task = "done"
    /\ now - last_keepalive >= keepalive_interval
    /\ ticks = 0
    /\ Len(events) = 2

\* the stream is open, every response of the body was sent, and a heartbeat
\* interval has passed since the last event
HeartbeatDue == Drained /\ now - last_keepalive >= keepalive_interval

\* the last event of the stream is a heartbeat sent at the current time
HeartbeatSent ==
    /\ events # <<>>
    /\ events[Len(events)].kind = "keepalive"
    /\ last_keepalive = now

EmptyBodyStream == auth_method # "None" /\ request.body = <<>> /\ connNo > 0

\* C23: an authenticated streaming request with an empty body opens the
\* stream without error: the response is 200, the first event is the
\* priming event with id 0, the second the endpoint event with id 1, every
\* later event is a heartbeat comment, no response is enqueued or emitted,
\* and the stream ends by the client's disconnect only.
C23_EmptyBodyIdlesOnHeartbeats ==
    EmptyBodyStream =>
        /\ status_code = 200
        /\ initial_requests = <<>>
        /\ response_queue = <<>>
        /\ \A i \in DOMAIN events :
              /\ i = 1 => events[i] = [kind |-> "priming", id |-> 0, data |-> NoData]
              /\ i = 2 => events[i] = [kind |-> "endpoint", id |-> 1, data |-> NoData]
              /\ i >= 3 => events[i] = [kind |-> "keepalive", id |-> NoEventId, data |-> NoData]
        /\ gen \in {"start", "primed", "endpoint", "loop", "cancelled"}
        /\ gen = "loop" => Len(events) >= 2

\* the stream of an empty body has sent the priming event, the endpoint
\* event and a heartbeat, and the client has then disconnected
C23_Witness ==
    /\ EmptyBodyStream
    /\ process_task = "done"
    /\ Len(events) = 3
    /\ events[3].kind = "keepalive"
    /\ gen = "cancelled"

\* the lines of the body that are JSON-RPC requests, in body order
RequestLines(body) == SelectSeq(body, LAMBDA line : line.kind = "request")

\* every line of the body is a JSON object or is no JSON at all
OnlyObjectsAndMalformed(body) ==
    \A i \in DOMAIN body : body[i].kind \in { "request", "malformed" }

\* C24: a line of the body that is not valid JSON is skipped and nothing
\* more: every request line before and after it is parsed and dispatched,
\* and once the dispatcher is done and the queue is empty every request
\* line has its response event on the stream.
C24_MalformedLineIsSkipped ==
    (status_code = 200 /\ OnlyObjectsAndMalformed(request.body)) =>
        /\ initial_requests = RequestLines(request.body)
        /\ Drained => Cardinality(ResponseEvents) = Len(RequestLines(request.body))

\* the stream of a body whose first line is no JSON and whose second line
\* is a tools/list request has sent every response it will send: none
C24_Witness ==
    /\ request.body = << MalformedLine, ListReq >>
    /\ status_code = 200
    /\ Drained
    /\ initial_requests = <<>>
    /\ ResponseEvents = {}

(* ------------------------------------------------------------------ *)
(* Claims about the token endpoint                                    *)
(* ------------------------------------------------------------------ *)
\* the step is a POST /token with grant_type=refresh_token while the store
\* holds an unexpired refresh token of an earlier code exchange. The
\* handler declares no refresh_token parameter, so which token the form
\* presents does not reach it.
RefreshRequest ==
    /\ Token
    /\ token_request'.grant_type = "refresh_token"
    /\ refresh_tokens # {}

\* C25: POST /token with grant_type=refresh_token and an unexpired refresh
\* token issued by an earlier code exchange issues a new access token.
C25_RefreshIssuesAccessToken ==
    [][RefreshRequest =>
          /\ token_response'.status = 200
          /\ token_response'.access_token \in access_tokens' \ access_tokens]_vars

\* a refresh request was refused while a refresh token was in the store
C25_Witness ==
    /\ token_request # NoTokenRequest
    /\ token_request.grant_type = "refresh_token"
    /\ token_request.client_id = CLIENT_ID
    /\ token_request.redirect_uri = REDIRECT_URI
    /\ refresh_tokens # {}
    /\ token_response.status = 400
    /\ token_response.detail = "Invalid grant_type"

(* ------------------------------------------------------------------ *)
(* Claims about the registry                                          *)
(* ------------------------------------------------------------------ *)
\* the ecosystems test_list_tools_returns_ecosystems expects in the listing
TestedEcosystems ==
    { "gohighlevel", "quickbooks", "google_workspace", "amazon", "cloudflare",
      "godaddy", "freshbooks" }

\* C26: after application startup the registry holds at least one tool of
\* each bundled ecosystem: at least 6 tools, covering gohighlevel,
\* quickbooks, google_workspace, amazon, cloudflare, godaddy and freshbooks.
C26_StartupRegistersBundles ==
    /\ Cardinality(registry) >= 6
    /\ \A e \in TestedEcosystems : \E t \in registry : Ecosystem(t) = e

\* a tools/list request was answered with an empty list by a server whose
\* registry is as tool_registry.py constructs it
C26_Witness ==
    /\ registry = {}
    /\ request.body = << ListReq >>
    /\ Len(events) = 3
    /\ events[3].data = Response(ListReq.id, "result", 0, {})

(* ------------------------------------------------------------------ *)
(* Claims about read_requests                                         *)
(* ------------------------------------------------------------------ *)
\* C27: read_requests enqueues the end-of-stream sentinel only after every
\* call task spawned from the request stream has enqueued its response: when
\* the reader has put the sentinel no call task is left to run, no response
\* stands behind the sentinel in the queue, and when the stream loop has
\* stopped on the sentinel nothing is left in the queue.
C27_SentinelAfterEveryResponse ==
    /\ reader = "closed" => call_tasks = <<>>
    /\ \A i \in DOMAIN response_queue :
          response_queue[i] = Sentinel => i = Len(response_queue)
    /\ gen = "done" => response_queue = <<>>

\* the stream loop has stopped on the sentinel and the response to the
\* tools/list request of the stream is left in the queue
C27_Witness ==
    /\ request.body = << ListReq >>
    /\ reader = "closed"
    /\ gen = "done"
    /\ Len(events) = 2
    /\ response_queue = << Response(ListReq.id, "result", 0, {}) >>

\* the proof the form gives for the stored code fails one of the checks made
\* after the code was looked up
FailsLaterCheck(r, code_data) ==
    \/ code_data.client_id # r.client_id
    \/ code_data.code_challenge # None /\ r.code_verifier = None
    \/ code_data.code_challenge # None /\ r.code_verifier # None
          /\ S256(r.code_verifier) # code_data.code_challenge
    \/ code_data.code_challenge = None /\ r.client_secret # CLIENT_SECRET
    \/ code_data.redirect_uri # r.redirect_uri

\* the codes /authorize has issued that are no longer stored
GoneCodes == { c \in 1..(next_code - 1) : c \notin DOMAIN auth_codes }

\* C28: a POST /token that finds the code and then fails a later check
\* (code_verifier, client_secret, stored redirect_uri) still consumes the
\* code: the code is deleted and no token is stored; a code that is gone
\* stays gone, and every later attempt with it, whatever its proof, is
\* refused as invalid or expired. A POST /token rejected before the lookup
\* (grant_type, client_id or redirect_uri) leaves the stored codes as they
\* are.
C28_FailedExchangeConsumesCode ==
    /\ [][(Token /\ PassesFormChecks(token_request')
                 /\ token_request'.code \in DOMAIN auth_codes
                 /\ FailsLaterCheck(token_request', auth_codes[token_request'.code]))
            => /\ token_request'.code \notin DOMAIN auth_codes'
               /\ token_response'.status = 400
               /\ access_tokens' = access_tokens
               /\ refresh_tokens' = refresh_tokens]_vars
    /\ [][GoneCodes \subseteq GoneCodes']_vars
    /\ [][(Token /\ PassesFormChecks(token_request')
                 /\ token_request'.code \in GoneCodes)
            => /\ token_response'.status = 400
               /\ token_response'.detail = InvalidOrExpired
               /\ access_tokens' = access_tokens]_vars
    /\ [][(Token /\ ~PassesFormChecks(token_request'))
            => /\ auth_codes' = auth_codes
               /\ token_response'.status = 400]_vars

\* an exchange with the wrong verifier was refused and its code, never
\* redeemed, is no longer stored
C28_Witness ==
    /\ token_request # NoTokenRequest
    /\ PassesFormChecks(token_request)
    /\ token_response.status = 400
    /\ token_response.detail = "Invalid code_verifier"
    /\ token_request.code \in GoneCodes
    /\ redeemed[token_request.code] = 0

(* ------------------------------------------------------------------ *)
(* Claims about the stdio bridge                                      *)
(* ------------------------------------------------------------------ *)
\* C29: the tool-name mapping of the stdio bridge round-trips: the internal
\* name the bridge calls is the listed tool whose MCP name the client used,
\* also for names whose ecosystem prefix contains an underscore
\* (google_workspace.*).
C29_ToolNameRoundTrip ==
    \A i \in DOMAIN bridge_calls :
        \E tool_name \in ListedNames :
            /\ bridge_calls[i].mcp_tool_name = [k \in DOMAIN tool_name |->
                   IF tool_name[k] = "." THEN "_" ELSE tool_name[k]]
            /\ bridge_calls[i].internal_tool_name = tool_name

\* the bridge has forwarded a call of google_workspace_list_assets
C29_Witness ==
    /\ Len(bridge_calls) = 1
    /\ bridge_calls[1].mcp_tool_name
          = << "google", "_", "workspace", "_", "list", "_", "assets" >>
    /\ bridge_calls[1].internal_tool_name
          = << "google", ".", "workspace", "_", "list", "_", "assets" >>

(* ------------------------------------------------------------------ *)
(* Claims about the allow-list                                        *)
(* ------------------------------------------------------------------ *)
\* the registered tools of the ecosystems gohighlevel, godaddy and
\* digitalocean
AllowedTools ==
    { t \in registry : Ecosystem(t) \in { "gohighlevel", "godaddy", "digitalocean" } }

\* C30: the allow-list {gohighlevel, godaddy, digitalocean} is applied by
\* tools/list only: the response to tools/list holds the registered tools
\* of these ecosystems and no other tool, while the response to a
\* tools/call of a registered tool that runs without error is its result,
\* whatever the tool's ecosystem: a tool hidden from the listing remains
\* callable.
C30_AllowListFiltersListingOnly ==
    \A k \in DOMAIN Numbered :
        k >= 3 =>
            LET req == initial_requests[k - 2]
                data == Numbered[k].data
            IN  /\ req.method = "tools/list" =>
                      /\ data.kind = "result"
                      /\ data.tools = AllowedTools
                /\ (req.method = "tools/call" /\ req.name \in registry
                        /\ ToolRun(req.name) = "return") =>
                      data = [id |-> req.id, kind |-> "result", code |-> 0,
                              tools |-> {}, message |-> NoMessage]

\* a body listed the tools and called quickbooks.ledger_summary: the
\* listing does not show the tool and the call returned its result
C30_Witness ==
    /\ registry = BundledTools
    /\ request.body = << ListReq, CallHiddenReq >>
    /\ Len(events) = 4
    /\ "quickbooks.ledger_summary" \notin events[3].data.tools
    /\ "gohighlevel.read_contacts" \in events[3].data.tools
    /\ events[4].data.id = CallHiddenReq.id
    /\ events[4].data.kind = "result"

====
